---- MODULE Spec2Model ----
(***************************************************************************)
(* Model of src/twitter.py: scrape_user_tweets (the scroll-and-collect     *)
(* loop over a rendering session) and _parse_count (displayed counter text *)
(* to integer).                                                            *)
(*                                                                         *)
(* Strings are sequences of one-character strings.  An href is a sequence  *)
(* of tokens in which "S" stands for the substring "/status/" and "Q" for  *)
(* the character "?"; every other token is an opaque piece of text.        *)
(***************************************************************************)
EXTENDS Integers, Sequences, FiniteSets, TLC

(* ---------------------------------------------------------------------- *)
(* Bounds                                                                  *)
(* ---------------------------------------------------------------------- *)
MaxLimit == 3
MaxArticles == 2
MaxHeight == 1
MaxLen == 4

(* ---------------------------------------------------------------------- *)
(* _parse_count                                                            *)
(* ---------------------------------------------------------------------- *)
Chars == {"1", "2", ".", "K", "k", "M", "a", "-", " "}

CountStrings == UNION {[1..n -> Chars] : n \in 0..MaxLen}

Digits == {"0", "1", "2", "3", "4", "5", "6", "7", "8", "9"}

DigitVal(c) ==
    CASE c = "0" -> 0 [] c = "1" -> 1 [] c = "2" -> 2 [] c = "3" -> 3
      [] c = "4" -> 4 [] c = "5" -> 5 [] c = "6" -> 6 [] c = "7" -> 7
      [] c = "8" -> 8 [] c = "9" -> 9

RECURSIVE LStrip(_)
LStrip(s) == IF s # <<>> /\ Head(s) = " " THEN LStrip(Tail(s)) ELSE s

RECURSIVE RStrip(_)
RStrip(s) ==
    IF s # <<>> /\ s[Len(s)] = " " THEN RStrip(SubSeq(s, 1, Len(s) - 1)) ELSE s

\* str.strip()
Strip(s) == RStrip(LStrip(s))

UpperChar(c) ==
    CASE c = "k" -> "K" [] c = "m" -> "M" [] c = "a" -> "A" [] OTHER -> c

\* str.upper()
Upper(s) == [i \in 1..Len(s) |-> UpperChar(s[i])]

\* c in s
Contains(s, c) == \E i \in 1..Len(s) : s[i] = c

RECURSIVE Remove(_, _)
\* s.replace(c, '')
Remove(s, c) ==
    IF s = <<>> THEN <<>>
    ELSE IF Head(s) = c THEN Remove(Tail(s), c)
    ELSE <<Head(s)>> \o Remove(Tail(s), c)

RECURSIVE DigitsVal(_)
DigitsVal(s) ==
    IF s = <<>> THEN 0 ELSE 10 * DigitsVal(SubSeq(s, 1, Len(s) - 1)) + DigitVal(s[Len(s)])

AllDigits(s) == \A i \in 1..Len(s) : s[i] \in Digits

RECURSIVE Pow10(_)
Pow10(n) == IF n = 0 THEN 1 ELSE 10 * Pow10(n - 1)

Unsigned(s) == IF s # <<>> /\ s[1] \in {"-", "+"} THEN Tail(s) ELSE s

IsNeg(s) == s # <<>> /\ s[1] = "-"

\* int(s): surrounding whitespace and one sign are accepted, then decimal
\* digits only.  ok = FALSE stands for ValueError.
ParseInt(s) ==
    LET t == Strip(s)
        u == Unsigned(t)
    IN  IF u # <<>> /\ AllDigits(u)
        THEN [ok |-> TRUE, val |-> IF IsNeg(t) THEN 0 - DigitsVal(u) ELSE DigitsVal(u)]
        ELSE [ok |-> FALSE, val |-> 0]

\* float(s): surrounding whitespace and one sign are accepted, then digits
\* with at most one point and at least one digit.  The value is
\* (neg ? -1 : 1) * mant / 10^frac.  ok = FALSE stands for ValueError.
ParseFloat(s) ==
    LET t == Strip(s)
        u == Unsigned(t)
        d == Remove(u, ".")
        points == Len(u) - Len(d)
        dot == IF points = 1 THEN CHOOSE i \in 1..Len(u) : u[i] = "." ELSE Len(u) + 1
    IN  IF d # <<>> /\ AllDigits(d) /\ points <= 1
        THEN [ok |-> TRUE, neg |-> IsNeg(t), mant |-> DigitsVal(d),
              frac |-> IF points = 1 THEN Len(u) - dot ELSE 0]
        ELSE [ok |-> FALSE, neg |-> FALSE, mant |-> 0, frac |-> 0]

\* int(f * factor): truncation towards zero.
Scaled(f, factor) ==
    LET q == (f.mant * factor) \div Pow10(f.frac)
    IN  IF f.neg THEN 0 - q ELSE q

Raised == [ok |-> FALSE, val |-> 0]

Returned(v) == [ok |-> TRUE, val |-> v]

\* _parse_count(count_str); ok = FALSE means the call raised ValueError.
ParseCount(str) ==
    IF str = <<>> THEN Returned(0)
    ELSE LET s == Upper(Strip(str))
         IN  IF Contains(s, "K")
             THEN LET f == ParseFloat(Remove(s, "K"))
                  IN  IF f.ok THEN Returned(Scaled(f, 1000)) ELSE Raised
             ELSE IF Contains(s, "M")
             THEN LET f == ParseFloat(Remove(s, "M"))
                  IN  IF f.ok THEN Returned(Scaled(f, 1000000)) ELSE Raised
             ELSE LET n == ParseInt(s)
                  IN  IF n.ok THEN Returned(n.val) ELSE Returned(0)

(* ---------------------------------------------------------------------- *)
(* Inputs presented by the rendering engine                                *)
(* ---------------------------------------------------------------------- *)
Limits == {0 - 1, 0} \cup (1..MaxLimit)

Heights == 0..MaxHeight

Marker == "S"

Query == "Q"

Hrefs ==
    { <<"u", "S", "1">>, <<"u", "S", "2">>, <<"u", "S", "3">>,
      <<"u", "S", "1", "Q", "s">>, <<"u", "S", "2", "S", "p">>,
      <<"u", "S">>, <<"u">> }

\* What link.get_attribute("href") yields: a string, or None.
Links ==
    {[none |-> FALSE, href |-> h] : h \in Hrefs} \cup {[none |-> TRUE, href |-> <<>>]}

Unmarked == [none |-> FALSE, href |-> <<"u">>]

LinkLists ==
    {<<>>} \cup {<<l>> : l \in Links} \cup {<<Unmarked, l>> : l \in Links}

CountTexts == {<<>>, <<"2">>, <<"K">>, <<"a">>}

TestIds == {"reply-count", "retweet-count", "like-count", "view-count"}

StatLists ==
    {<<>>} \cup {<<[testid |-> k, text |-> t]>> : k \in TestIds, t \in CountTexts}

\* The time element: present with a datetime attribute, absent
\* (NoSuchElementException), or present without the attribute (None).
Times == {"ok", "absent", "no_datetime"}

(* ---------------------------------------------------------------------- *)
(* Per-item extraction helpers                                             *)
(* ---------------------------------------------------------------------- *)
First(s, tok) == CHOOSE i \in 1..Len(s) : s[i] = tok /\ \A j \in 1..(i - 1) : s[j] # tok

\* s.split(tok)[0]
Before(s, tok) == IF Contains(s, tok) THEN SubSeq(s, 1, First(s, tok) - 1) ELSE s

\* s.split(tok)[1], for s containing tok
After(s, tok) == Before(SubSeq(s, First(s, tok) + 1, Len(s)), tok)

\* href.split("/status/")[1].split("?")[0]
StatusId(href) == Before(After(href, Marker), Query)

RECURSIVE FirstStatusId(_)
\* The loop over links: the id of the first link whose href holds the
\* marker; exc when an href is None ("/status/" in None raises TypeError).
\* The empty id stands for both None and "" (both falsy).
FirstStatusId(links) ==
    IF links = <<>> THEN [exc |-> FALSE, id |-> <<>>]
    ELSE IF Head(links).none THEN [exc |-> TRUE, id |-> <<>>]
    ELSE IF Contains(Head(links).href, Marker)
         THEN [exc |-> FALSE, id |-> StatusId(Head(links).href)]
         ELSE FirstStatusId(Tail(links))

IsCollectedLastOnly(id, list) ==
    id # <<>> /\ list # <<>> /\ list[Len(list)].id = id

\* tweet_id and any(t["id"] == tweet_id for t in tweets_list)
IsCollected(id, list) ==
    id # <<>> /\ \E i \in 1..Len(list) : list[i].id = id

ZeroStats == [replyCount |-> 0, retweetCount |-> 0, likeCount |-> 0]

StatKey(testid) ==
    CASE testid = "reply-count" -> "replyCount"
      [] testid = "retweet-count" -> "retweetCount"
      [] testid = "like-count" -> "likeCount"

RECURSIVE ReadStats(_, _)
\* The loop over the "-count" elements; exc when _parse_count raises (the
\* enclosing try catches NoSuchElementException only).
ReadStats(elems, stats) ==
    IF elems = <<>> THEN [exc |-> FALSE, stats |-> stats]
    ELSE LET e == Head(elems)
         IN  IF e.testid \in {"reply-count", "retweet-count", "like-count"}
             THEN LET c == ParseCount(e.text)
                  IN  IF c.ok
                      THEN ReadStats(Tail(elems), [stats EXCEPT ![StatKey(e.testid)] = c.val])
                      ELSE [exc |-> TRUE, stats |-> stats]
             ELSE ReadStats(Tail(elems), stats)

\* The dictionary of lines 140-151, with the fields the properties below
\* read: the id and the three counters.  date, content, url, hashtags,
\* mentionedUsers and has_media are computed from the article alone and
\* never read back by the loop.
TweetDict(id, stats) ==
    [id |-> id, replyCount |-> stats.replyCount,
     retweetCount |-> stats.retweetCount, likeCount |-> stats.likeCount]

ExhaustedHeightShrinks(new_height, old_height, found) ==
    new_height < old_height /\ found = 0

\* new_height == last_height and new_tweets == 0
Exhausted(new_height, old_height, found) ==
    new_height = old_height /\ found = 0

(* ---------------------------------------------------------------------- *)
(* State                                                                   *)
(* ---------------------------------------------------------------------- *)
VARIABLES
    pc,           \* position in scrape_user_tweets
    limit,        \* the limit argument
    driver,       \* "none", "acquired", "released"
    tweets_list,  \* the accumulated tweet dictionaries
    last_height,  \* scroll extent recorded at the end of the previous pass
    n_articles,   \* len(articles) of the current pass
    idx,          \* position of the for loop in articles (1-based)
    new_tweets,   \* items appended in the current pass
    tweet_id,     \* id extracted from the current article
    result,       \* the returned list
    navigated,    \* driver.get was called
    wait_ok,      \* the initial wait found a container
    timed_out,    \* the initial wait raised TimeoutException
    quits,        \* number of driver.quit() calls
    writes,       \* number of completed writes of the output file
    stagnant,     \* consecutive completed passes with no new item and no extent change
    last,         \* outcome of the last step on an article
    count_str,    \* argument of a _parse_count call
    parse_out     \* outcome of that call

vars ==
    <<pc, limit, driver, tweets_list, last_height, n_articles, idx, new_tweets,
      tweet_id, result, navigated, wait_ok, timed_out, quits, writes, stagnant,
      last, count_str, parse_out>>

Idle == [state |-> "idle", val |-> 0]

parse_vars == <<count_str, parse_out>>

run_vars ==
    <<pc, limit, driver, tweets_list, last_height, n_articles, idx, new_tweets,
      tweet_id, result, navigated, wait_ok, timed_out, quits, writes, stagnant,
      last>>

Terminal == {"returned", "raised"}

InLoop == {"loop_head", "find", "for", "fields", "after_for", "scroll", "read_height"}

Entry ==
    /\ pc = "start"
    /\ driver = "none"
    /\ tweets_list = <<>>
    /\ last_height = 0
    /\ n_articles = 0
    /\ idx = 0
    /\ new_tweets = 0
    /\ tweet_id = <<>>
    /\ result = <<>>
    /\ navigated = FALSE
    /\ wait_ok = FALSE
    /\ timed_out = FALSE
    /\ quits = 0
    /\ writes = 0
    /\ stagnant = 0
    /\ last = "none"

Init ==
    /\ limit \in Limits
    /\ Entry
    /\ count_str = <<>>
    /\ parse_out = Idle

(* ---------------------------------------------------------------------- *)
(* scrape_user_tweets                                                      *)
(* ---------------------------------------------------------------------- *)
\* webdriver.Chrome(...) succeeds.
StartDriver ==
    /\ pc = "start"
    /\ driver' = "acquired"
    /\ pc' = "navigate"
    /\ last' = "none"
    /\ UNCHANGED <<limit, tweets_list, last_height, n_articles, idx, new_tweets,
                   tweet_id, result, navigated, wait_ok, timed_out, quits, writes,
                   stagnant, parse_vars>>

\* driver.get(url) succeeds.
Navigate ==
    /\ pc = "navigate"
    /\ navigated' = TRUE
    /\ pc' = "wait"
    /\ last' = "none"
    /\ UNCHANGED <<limit, driver, tweets_list, last_height, n_articles, idx,
                   new_tweets, tweet_id, result, wait_ok, timed_out, quits, writes,
                   stagnant, parse_vars>>

\* The points at which a call on the session, or the file write, may raise
\* an exception that no handler of scrape_user_tweets catches.
RaisingPoints ==
    {"start", "navigate", "wait", "init_height", "find", "scroll", "read_height", "save"}

\* An uncaught exception leaves the function at once.
Raise ==
    /\ pc \in RaisingPoints
    /\ pc' = "raised"
    /\ last' = "none"
    /\ UNCHANGED <<limit, driver, tweets_list, last_height, n_articles, idx,
                   new_tweets, tweet_id, result, navigated, wait_ok, timed_out,
                   quits, writes, stagnant, parse_vars>>

TimeoutHandlerNoQuit ==
    /\ timed_out' = TRUE
    /\ result' = <<>>
    /\ pc' = "returned"
    /\ UNCHANGED <<driver, quits>>

\* except TimeoutException: driver.quit(); return []
TimeoutHandler ==
    /\ timed_out' = TRUE
    /\ driver' = "released"
    /\ quits' = quits + 1
    /\ result' = <<>>
    /\ pc' = "returned"

\* WebDriverWait(driver, 20).until(...): a container appears, or the wait
\* times out.
InitialWait ==
    /\ pc = "wait"
    /\ \/ /\ wait_ok' = TRUE
          /\ pc' = "init_height"
          /\ UNCHANGED <<driver, quits, result, timed_out>>
       \/ /\ TimeoutHandler
          /\ UNCHANGED wait_ok
    /\ last' = "none"
    /\ UNCHANGED <<limit, tweets_list, last_height, n_articles, idx, new_tweets,
                   tweet_id, navigated, writes, stagnant, parse_vars>>

\* tweets_list = []; last_height = scrollHeight
ReadInitialHeight ==
    /\ pc = "init_height"
    /\ \E h \in Heights : last_height' = h
    /\ tweets_list' = <<>>
    /\ pc' = "loop_head"
    /\ last' = "none"
    /\ UNCHANGED <<limit, driver, n_articles, idx, new_tweets, tweet_id, result,
                   navigated, wait_ok, timed_out, quits, writes, stagnant, parse_vars>>

\* while len(tweets_list) < limit
LoopHead ==
    /\ pc = "loop_head"
    /\ pc' = IF Len(tweets_list) < limit THEN "find" ELSE "quit"
    /\ last' = "none"
    /\ UNCHANGED <<limit, driver, tweets_list, last_height, n_articles, idx,
                   new_tweets, tweet_id, result, navigated, wait_ok, timed_out,
                   quits, writes, stagnant, parse_vars>>

\* articles = driver.find_elements(...); new_tweets = 0
FindArticles ==
    /\ pc = "find"
    /\ \E n \in 0..MaxArticles :
          /\ n_articles' = n
          /\ pc' = IF n = 0 THEN "after_for" ELSE "for"
    /\ idx' = 1
    /\ new_tweets' = 0
    /\ last' = "none"
    /\ UNCHANGED <<limit, driver, tweets_list, last_height, tweet_id, result,
                   navigated, wait_ok, timed_out, quits, writes, stagnant, parse_vars>>

\* The for loop moves to the next article, or ends.
NextArticle ==
    /\ idx' = idx + 1
    /\ pc' = IF idx < n_articles THEN "for" ELSE "after_for"
    /\ tweet_id' = <<>>

OnItemExceptionAbortsPass ==
    /\ last' = "exc"
    /\ idx' = idx + 1
    /\ pc' = "after_for"
    /\ tweet_id' = <<>>
    /\ UNCHANGED <<tweets_list, new_tweets>>

\* except Exception as e: print(...); continue
OnItemException ==
    /\ last' = "exc"
    /\ NextArticle
    /\ UNCHANGED <<tweets_list, new_tweets>>

\* Lines 73-83 for one article: find the id, skip an article already
\* collected.  article.find_elements may itself raise (a stale element).
ExamineArticle ==
    /\ pc = "for"
    /\ \E stale \in BOOLEAN, links \in LinkLists :
          LET r == FirstStatusId(links)
          IN  IF stale \/ r.exc
              THEN OnItemException
              ELSE IF IsCollected(r.id, tweets_list)
              THEN /\ last' = "dup"
                   /\ NextArticle
                   /\ UNCHANGED <<tweets_list, new_tweets>>
              ELSE /\ last' = "none"
                   /\ tweet_id' = r.id
                   /\ pc' = "fields"
                   /\ UNCHANGED <<tweets_list, new_tweets, idx>>
    /\ UNCHANGED <<limit, driver, last_height, n_articles, result, navigated,
                   wait_ok, timed_out, quits, writes, stagnant, parse_vars>>

\* Lines 85-160 for one article: read the fields, then append the
\* dictionary when an id was found, and leave the for loop at the limit.
ExtractFields ==
    /\ pc = "fields"
    /\ \E time \in Times, elems \in StatLists :
          LET s == ReadStats(elems, ZeroStats)
          IN  IF time = "no_datetime" \/ s.exc
              THEN OnItemException
              ELSE IF tweet_id # <<>>
              THEN /\ tweets_list' = Append(tweets_list, TweetDict(tweet_id, s.stats))
                   /\ new_tweets' = new_tweets + 1
                   /\ last' = "appended"
                   /\ idx' = idx + 1
                   /\ tweet_id' = <<>>
                   /\ pc' = IF Len(tweets_list) + 1 >= limit \/ idx >= n_articles
                            THEN "after_for" ELSE "for"
              ELSE /\ last' = "no_id"
                   /\ NextArticle
                   /\ UNCHANGED <<tweets_list, new_tweets>>
    /\ UNCHANGED <<limit, driver, last_height, n_articles, result, navigated,
                   wait_ok, timed_out, quits, writes, stagnant, parse_vars>>

\* if len(tweets_list) >= limit: break
AfterFor ==
    /\ pc = "after_for"
    /\ pc' = IF Len(tweets_list) >= limit THEN "quit" ELSE "scroll"
    /\ last' = "none"
    /\ UNCHANGED <<limit, driver, tweets_list, last_height, n_articles, idx,
                   new_tweets, tweet_id, result, navigated, wait_ok, timed_out,
                   quits, writes, stagnant, parse_vars>>

\* window.scrollTo(0, document.body.scrollHeight); time.sleep(2)
Scroll ==
    /\ pc = "scroll"
    /\ pc' = "read_height"
    /\ last' = "none"
    /\ UNCHANGED <<limit, driver, tweets_list, last_height, n_articles, idx,
                   new_tweets, tweet_id, result, navigated, wait_ok, timed_out,
                   quits, writes, stagnant, parse_vars>>

\* new_height = scrollHeight; leave the loop when the feed is exhausted,
\* else last_height = new_height.
CheckHeight ==
    /\ pc = "read_height"
    /\ \E new_height \in Heights :
          /\ stagnant' = IF new_height = last_height /\ new_tweets = 0
                         THEN (IF stagnant < 2 THEN stagnant + 1 ELSE 2)
                         ELSE 0
          /\ IF Exhausted(new_height, last_height, new_tweets)
             THEN pc' = "quit" /\ UNCHANGED last_height
             ELSE pc' = "loop_head" /\ last_height' = new_height
    /\ last' = "none"
    /\ UNCHANGED <<limit, driver, tweets_list, n_articles, idx, new_tweets,
                   tweet_id, result, navigated, wait_ok, timed_out, quits, writes,
                   parse_vars>>

QuitAndReturn ==
    /\ pc = "quit"
    /\ driver' = "released"
    /\ quits' = quits + 1
    /\ result' = tweets_list
    /\ pc' = "returned"
    /\ last' = "none"
    /\ UNCHANGED <<limit, tweets_list, last_height, n_articles, idx, new_tweets,
                   tweet_id, navigated, wait_ok, timed_out, writes, stagnant,
                   parse_vars>>

\* driver.quit() after the loop
Quit ==
    /\ pc = "quit"
    /\ driver' = "released"
    /\ quits' = quits + 1
    /\ pc' = "save"
    /\ last' = "none"
    /\ UNCHANGED <<limit, tweets_list, last_height, n_articles, idx, new_tweets,
                   tweet_id, result, navigated, wait_ok, timed_out, writes, stagnant,
                   parse_vars>>

\* json.dump(tweets_list, f, ...); return tweets_list
Save ==
    /\ pc = "save"
    /\ writes' = writes + 1
    /\ result' = tweets_list
    /\ pc' = "returned"
    /\ last' = "none"
    /\ UNCHANGED <<limit, driver, tweets_list, last_height, n_articles, idx,
                   new_tweets, tweet_id, navigated, wait_ok, timed_out, quits,
                   stagnant, parse_vars>>

Next ==
    \/ StartDriver
    \/ Navigate
    \/ Raise
    \/ InitialWait
    \/ ReadInitialHeight
    \/ LoopHead
    \/ FindArticles
    \/ ExamineArticle
    \/ ExtractFields
    \/ AfterFor
    \/ Scroll
    \/ CheckHeight
    \/ Quit
    \/ Save

Spec == Init /\ [][Next]_vars

\* The function is sequential code: it keeps taking steps until it returns
\* or raises.
FairSpec == Init /\ [][Next]_vars /\ WF_vars(Next)

(* ---------------------------------------------------------------------- *)
(* _parse_count on its own, over every string of the alphabet              *)
(* ---------------------------------------------------------------------- *)
ParseInit ==
    /\ count_str \in CountStrings
    /\ parse_out = Idle
    /\ limit = 1
    /\ Entry

ParseCall ==
    /\ parse_out.state = "idle"
    /\ LET r == ParseCount(count_str)
       IN  parse_out' = [state |-> IF r.ok THEN "returned" ELSE "raised", val |-> r.val]
    /\ UNCHANGED <<count_str, run_vars>>

ParseNext == ParseCall

ParseSpec == ParseInit /\ [][ParseNext]_vars

(* ---------------------------------------------------------------------- *)
(* Properties                                                              *)
(* ---------------------------------------------------------------------- *)

\* C1: the sequence scrape_user_tweets returns is never longer than limit,
\* for every limit, zero and negative values included.
C1_LengthWithinLimit == pc = "returned" => Len(result) <= limit

\* C2: the accumulated sequence never holds two items with the same id.
C2_DistinctIds ==
    \A i, j \in 1..Len(tweets_list) :
        i # j => tweets_list[i].id # tweets_list[j].id

\* An article whose id is already collected was skipped while two items
\* were held, one of them appended in this same pass.
C2_Witness == last = "dup" /\ Len(tweets_list) >= 2 /\ new_tweets >= 1

\* C3: once the initial wait has succeeded, the run ends (returns or
\* raises) whatever the feed does.
C3_Terminates == wait_ok ~> (pc \in Terminal)

\* C4: a pass that finds no new item and reads the scroll extent recorded
\* by the previous pass ends the loop, so no further pass starts after one
\* such pass, and none after two.
C4_StagnationExits == stagnant >= 1 => pc \notin InLoop

\* The loop was left on stagnation with fewer than limit items collected.
C4_Witness == stagnant = 1 /\ pc = "quit" /\ Len(tweets_list) < limit

\* C5: when the initial wait times out the run returns the empty sequence,
\* does not raise, and has released the session exactly once.
C5_TimeoutPath ==
    timed_out =>
        /\ pc = "returned"
        /\ result = <<>>
        /\ driver = "released"
        /\ quits = 1

C5_Witness == timed_out /\ pc = "returned" /\ limit >= 1

\* C6: no run ends by a propagated error with its acquired session left
\* unreleased.
C6_ReleasedOnError == pc = "raised" => driver # "acquired"

\* C7: a call with limit <= 0 starts no driver, navigates to no page and
\* writes no file.
C7_RejectsNonPositiveLimit ==
    limit <= 0 => (driver = "none" /\ ~navigated /\ writes = 0)

\* C8: _parse_count never raises and returns a non-negative integer for
\* every displayed string.
C8_ParseNeverFails ==
    parse_out.state # "idle" => (parse_out.state = "returned" /\ parse_out.val >= 0)

\* C9: a step in which processing an article raised appends nothing, does
\* not count a new item, leaves the accumulated items as they were, and the
\* pass goes on with the next article when there is one.
C9_ItemExceptionSkipsItem ==
    [][last' = "exc" =>
          /\ tweets_list' = tweets_list
          /\ new_tweets' = new_tweets
          /\ idx' = idx + 1
          /\ pc' \in {"for", "after_for"}
          /\ (idx < n_articles => pc' = "for")]_vars

\* An article raised while items were already held and another article of
\* the same pass is still to be processed.
C9_Witness == last = "exc" /\ pc = "for" /\ idx <= n_articles /\ Len(tweets_list) >= 1

====
